---- MODULE Spec2Model ----
(***************************************************************************)
(* Streaming chat client of my-ai-agent: chatAPI.streamMessage /           *)
(* chatAPI.createStreamConnection (frontend/src/services/api.js) driven by *)
(* the ChatBot component (frontend/src/components/ChatBot.js).             *)
(*                                                                         *)
(* Text is a sequence of units.  A unit stands for a fixed run of bytes of *)
(* the wire format ("data:" and " " make up the 6-character event prefix,  *)
(* "tp" is "type":"progress", "m" is ,"message": and so on); the two bytes *)
(* "xC3" "xA9" are the UTF-8 encoding of one character, written "e'".      *)
(***************************************************************************)
EXTENDS Integers, Sequences, FiniteSets, TLC

\* ------------------------------------------------------------------ bounds
MaxLines == 2          \* lines per response body when the read loop is explored alone
MaxReplyLines == 1     \* lines per response body when whole requests are explored
MaxSkipped == 1        \* malformed lines in a row between two events
MaxAttempt == 6        \* largest attempt number the backoff schedule is evaluated at
MaxText == 3           \* characters of a message text

\* ------------------------------------------------------- program constants
maxRetries == 3
BaseDelay == 1000
MaxDelay == 10000

\* ------------------------------------------------------------- wire format
NL == "\n"
Prefix == <<"data:", " ">>
Undefined == "undefined"
Replacement == "uFFFD"

TypeUnits == {"tp", "td", "tc", "te", "tu"}
SessionUnits == {"sA", "sB"}
StringChars == {"h", "e'", Replacement}

TypeOf(u) ==
    CASE u = "tp" -> "progress"
      [] u = "td" -> "data"
      [] u = "tc" -> "complete"
      [] u = "te" -> "error"
      [] OTHER    -> "status"

StringOf(c) == IF c = "h" THEN "hi" ELSE c

SessionOf(u) == IF u = "sA" THEN "abc" ELSE "xyz"

\* The event lines a backend response is made of (without the newline).
LineProgress  == Prefix \o <<"{", "tp", "sA", "}">>
LineData      == Prefix \o <<"{", "td", "m", "h", "sA", "}">>
LineDataUtf8  == Prefix \o <<"{", "td", "m", "xC3", "xA9", "sB", "}">>
LineComplete  == Prefix \o <<"{", "tc", "}">>
LineError     == Prefix \o <<"{", "te", "m", "h", "}">>
LineUnknown   == Prefix \o <<"{", "tu", "}">>
LineMalformed == Prefix \o <<"{", "!">>
LineBlank     == <<>>

LineKinds == {"progress", "data", "dataUtf8", "complete", "error",
              "unknown", "malformed", "blank"}

LineBytes(k) ==
    CASE k = "progress"  -> LineProgress
      [] k = "data"      -> LineData
      [] k = "dataUtf8"  -> LineDataUtf8
      [] k = "complete"  -> LineComplete
      [] k = "error"     -> LineError
      [] k = "unknown"   -> LineUnknown
      [] k = "malformed" -> LineMalformed
      [] OTHER           -> LineBlank

RECURSIVE BodyBytes(_)
BodyBytes(kinds) ==
    IF kinds = <<>> THEN <<>>
    ELSE LineBytes(Head(kinds)) \o <<NL>> \o BodyBytes(Tail(kinds))

\* the lines of an ordinary reply
ReplyKinds == {"progress", "data", "complete", "error"}

KindSeqs(kinds, n) == UNION {[1..k -> kinds] : k \in 0..n}

Bodies(kinds, n) == {BodyBytes(ks) : ks \in KindSeqs(kinds, n)}

\* ------------------------------------------------- TextDecoder (streaming)
\* decoder.decode(value, {stream: true}): bytes held over from the previous
\* call are prepended; an incomplete trailing sequence is held back.
RECURSIVE Utf8Decode(_, _)
Utf8Decode(bytes, acc) ==
    IF bytes = <<>> THEN [text |-> acc, held |-> <<>>]
    ELSE IF Head(bytes) = "xC3"
         THEN IF Len(bytes) = 1 THEN [text |-> acc, held |-> bytes]
              ELSE IF bytes[2] = "xA9"
                   THEN Utf8Decode(SubSeq(bytes, 3, Len(bytes)), Append(acc, "e'"))
                   ELSE Utf8Decode(Tail(bytes), Append(acc, Replacement))
    ELSE IF Head(bytes) = "xA9"
         THEN Utf8Decode(Tail(bytes), Append(acc, Replacement))
    ELSE Utf8Decode(Tail(bytes), Append(acc, Head(bytes)))

decode(held, value) == Utf8Decode(held \o value, <<>>)

\* ------------------------------------------------------ String.prototype.*
RECURSIVE SplitFrom(_, _)
SplitFrom(text, cur) ==
    IF text = <<>> THEN <<cur>>
    ELSE IF Head(text) = NL THEN <<cur>> \o SplitFrom(Tail(text), <<>>)
    ELSE SplitFrom(Tail(text), Append(cur, Head(text)))

split(text) == SplitFrom(text, <<>>)

startsWith(line, p) == Len(line) >= Len(p) /\ SubSeq(line, 1, Len(p)) = p

slice(line, n) == SubSeq(line, n + 1, Len(line))

\* ---------------------------------------------------------------- JSON.parse
SyntaxError == [type |-> "SyntaxError", message |-> Undefined, session_id |-> Undefined]

RECURSIVE TrimLeft(_)
TrimLeft(s) == IF s # <<>> /\ Head(s) = " " THEN TrimLeft(Tail(s)) ELSE s

RECURSIVE TrimRight(_)
TrimRight(s) ==
    IF s # <<>> /\ s[Len(s)] = " " THEN TrimRight(SubSeq(s, 1, Len(s) - 1)) ELSE s

\* members of an object, in the order type, message, session_id
ParseMembers(s) ==
    LET t  == IF s # <<>> /\ Head(s) \in TypeUnits THEN TypeOf(Head(s)) ELSE Undefined
        s1 == IF t = Undefined THEN s ELSE Tail(s)
        hasM == Len(s1) >= 2 /\ s1[1] = "m" /\ s1[2] \in StringChars
        m  == IF hasM THEN StringOf(s1[2]) ELSE Undefined
        s2 == IF hasM THEN SubSeq(s1, 3, Len(s1)) ELSE s1
        hasS == s2 # <<>> /\ Head(s2) \in SessionUnits
        sid == IF hasS THEN SessionOf(Head(s2)) ELSE Undefined
        s3 == IF hasS THEN Tail(s2) ELSE s2
    IN  IF s3 = <<>> THEN [type |-> t, message |-> m, session_id |-> sid]
        ELSE SyntaxError

JSONparse(text) ==
    LET s == TrimRight(TrimLeft(text))
    IN  IF Len(s) >= 2 /\ Head(s) = "{" /\ s[Len(s)] = "}"
        THEN ParseMembers(SubSeq(s, 2, Len(s) - 1))
        ELSE SyntaxError

\* ------------------------------------------------------------------- state
VARIABLES
    chat,             \* ChatBot React state: isStreaming, currentStream, sessionId,
                      \* connectionStatus, and messages: the entries of the message list
                      \* from the user message of the current request on (the entries
                      \* before it are never read or changed by the handlers modelled)
    closureSessionId, \* the sessionId captured by the callbacks of the current request
    phase,            \* "idle" | "connecting" | "waiting" | "streaming" | "done"
    retryCount,       \* retryCount argument of the running createStreamConnection call
    handle,           \* what the promise returned by streamMessage resolved to
    stream,           \* the stream object: cancelled flag, reader.cancel() requested
    body,             \* bytes of the response body of the successful connection
    pos,              \* bytes of body delivered by reader.read() so far
    held,             \* bytes the TextDecoder holds back
    exit,             \* how the request ended
    outcomes,         \* outcome of each fetch() of the current request, in order
    timers,           \* delays passed to setTimeout for the current request, in order
    calls,            \* callbacks invoked for the current request, in order
    fetches,          \* fetch() calls made for the current request
    cancelledIn,      \* phase at the first cancel() on the resolved handle, or "never"
    uiCancel,         \* "never", or when cancelStream first ran: "early" (no response yet) or "late"
    cancelThrew,      \* a cancel() call made by cancelStream raised a TypeError
    intact,           \* no chunk boundary has fallen inside an event line so far
    requests,         \* arguments of each fetch() of the current request, in order
    sent              \* the last chatAPI.sendMessage call: arguments, posts, result

vars == <<chat, closureSessionId, phase, retryCount, handle, stream, body, pos,
          held, exit, outcomes, timers, calls, fetches, cancelledIn, uiCancel, cancelThrew, intact,
          requests, sent>>

Null == "null"
Never == "never"

NoEvent == [type |-> Undefined, message |-> Undefined, session_id |-> Undefined]

\* new Error(message)
Error(msg) == [type |-> "Error", message |-> msg, session_id |-> Undefined]

\* ------------------------------------------------- api.js: request payload
\* String.prototype.trim
RECURSIVE trim(_)
trim(s) ==
    IF Len(s) > 0 /\ SubSeq(s, 1, 1) = " " THEN trim(SubSeq(s, 2, Len(s)))
    ELSE IF Len(s) > 0 /\ SubSeq(s, Len(s), Len(s)) = " " THEN trim(SubSeq(s, 1, Len(s) - 1))
    ELSE s

\* texts of up to n characters
RECURSIVE Texts(_)
Texts(n) ==
    IF n = 0 THEN {""}
    ELSE Texts(n - 1) \cup {t \o c : t \in Texts(n - 1), c \in {" ", "h"}}

\* JavaScript truthiness of a session id argument
Truthy(v) == v \notin {Null, Undefined, ""}

Endpoint == "/chat/stream"
Callbacks == {"onProgress", "onData", "onComplete", "onError"}

\* the payload object of streamMessage
StreamPayload(message, sessionId) ==
    IF Truthy(sessionId)
    THEN [message |-> trim(message), session_id |-> sessionId]
    ELSE [message |-> trim(message)]

\* mutant of SendPayload: session_id is always a field of the payload
SendPayloadAlways(message, sessionId) ==
    [message |-> trim(message), session_id |-> sessionId]

\* the payload object of sendMessage
SendPayload(message, sessionId) ==
    IF Truthy(sessionId)
    THEN [message |-> trim(message), session_id |-> sessionId]
    ELSE [message |-> trim(message)]

\* what the user may have typed when the form is submitted
InputTexts == {"h", " h ", " "}

\* no sendMessage call made yet
NoCall == [message |-> Undefined]

\* -------------------------------------------------- ChatBot.js: callbacks
onProgress(c, data) ==
    [c EXCEPT !.connectionStatus = "connected",
              !.sessionId = IF data.session_id # Undefined /\ closureSessionId = Null
                            THEN data.session_id ELSE @]

onData(c, data) ==
    [c EXCEPT !.sessionId = IF data.session_id # Undefined /\ closureSessionId = Null
                            THEN data.session_id ELSE @,
              !.messages = Append(@, [sender |-> "bot", text |-> data.message,
                                      isError |-> FALSE])]

\* mutant of onComplete: isStreaming is left set
onCompleteStillStreaming(c, data) ==
    [c EXCEPT !.currentStream = Null]

onComplete(c, data) ==
    [c EXCEPT !.isStreaming = FALSE, !.currentStream = Null]

\* String.prototype.includes
includes(s, sub) ==
    \E i \in 1..(Len(s) - Len(sub) + 1) : SubSeq(s, i, i + Len(sub) - 1) = sub

DefaultErrorText == "Sorry, I'm having trouble connecting. Please try again."
NetworkErrorText ==
    "Network connection failed. Please check your internet connection and try again."

\* mutant of errorText: the message of the error is always shown
errorTextVerbatim(error) == error.message

errorText(error) ==
    IF includes(error.message, "retry") THEN error.message
    ELSE IF includes(error.message, "network") \/ includes(error.message, "fetch")
         THEN NetworkErrorText
         ELSE DefaultErrorText

onError(c, error) ==
    [c EXCEPT !.isStreaming = FALSE, !.currentStream = Null,
              !.connectionStatus = "disconnected",
              !.messages = Append(@, [sender |-> "bot", text |-> errorText(error),
                                      isError |-> TRUE])]

Invoke(cb, c, arg) ==
    CASE cb = "onProgress" -> onProgress(c, arg)
      [] cb = "onData"     -> onData(c, arg)
      [] cb = "onComplete" -> onComplete(c, arg)
      [] OTHER             -> onError(c, arg)

\* st.chat / st.calls after calling callback cb with arg; from tells a callback of
\* the retry branch from one of the read loop
Call(st, cb, from, arg) ==
    [st EXCEPT !.chat = Invoke(cb, st.chat, arg),
               !.calls = Append(st.calls, [cb |-> cb, from |-> from, arg |-> arg])]

\* --------------------------------------- api.js: processStream, one chunk
\* mutant of DispatchLine: the complete case breaks out of the switch only
DispatchLineNoReturn(st, line) ==
    IF ~startsWith(line, Prefix) THEN st
    ELSE LET data == JSONparse(slice(line, Len(Prefix)))
         IN  CASE data = SyntaxError       -> st
               [] data.type = "progress"   -> Call(st, "onProgress", "stream", data)
               [] data.type = "data"       -> Call(st, "onData", "stream", data)
               [] data.type = "complete"   -> Call(st, "onComplete", "stream", data)
               [] data.type = "error"      ->
                      [Call(st, "onError", "stream", Error(data.message)) EXCEPT !.returned = TRUE]
               [] OTHER                    -> st

\* mutant of DispatchLine: a line that does not parse is reported and ends the loop
DispatchLineParseFatal(st, line) ==
    IF ~startsWith(line, Prefix) THEN st
    ELSE LET data == JSONparse(slice(line, Len(Prefix)))
         IN  CASE data = SyntaxError       ->
                      [Call(st, "onError", "stream", Error("parse")) EXCEPT !.returned = TRUE]
               [] data.type = "progress"   -> Call(st, "onProgress", "stream", data)
               [] data.type = "data"       -> Call(st, "onData", "stream", data)
               [] data.type = "complete"   ->
                      [Call(st, "onComplete", "stream", data) EXCEPT !.returned = TRUE]
               [] data.type = "error"      ->
                      [Call(st, "onError", "stream", Error(data.message)) EXCEPT !.returned = TRUE]
               [] OTHER                    -> st

\* mutant of DispatchLine: the error case breaks out of the switch only
DispatchLineErrorGoesOn(st, line) ==
    IF ~startsWith(line, Prefix) THEN st
    ELSE LET data == JSONparse(slice(line, Len(Prefix)))
         IN  CASE data = SyntaxError       -> st
               [] data.type = "progress"   -> Call(st, "onProgress", "stream", data)
               [] data.type = "data"       -> Call(st, "onData", "stream", data)
               [] data.type = "complete"   ->
                      [Call(st, "onComplete", "stream", data) EXCEPT !.returned = TRUE]
               [] data.type = "error"      -> Call(st, "onError", "stream", Error(data.message))
               [] OTHER                    -> st

\* mutant of DispatchLine: an event of unknown type is reported and ends the loop
DispatchLineUnknownFatal(st, line) ==
    IF ~startsWith(line, Prefix) THEN st
    ELSE LET data == JSONparse(slice(line, Len(Prefix)))
         IN  CASE data = SyntaxError       -> st
               [] data.type = "progress"   -> Call(st, "onProgress", "stream", data)
               [] data.type = "data"       -> Call(st, "onData", "stream", data)
               [] data.type = "complete"   ->
                      [Call(st, "onComplete", "stream", data) EXCEPT !.returned = TRUE]
               [] data.type = "error"      ->
                      [Call(st, "onError", "stream", Error(data.message)) EXCEPT !.returned = TRUE]
               [] OTHER                    ->
                      [Call(st, "onError", "stream", Error("unknown")) EXCEPT !.returned = TRUE]

\* the body of `for (const line of lines)` for one line
DispatchLine(st, line) ==
    IF ~startsWith(line, Prefix) THEN st
    ELSE LET data == JSONparse(slice(line, Len(Prefix)))
         IN  CASE data = SyntaxError       -> st
               [] data.type = "progress"   -> Call(st, "onProgress", "stream", data)
               [] data.type = "data"       -> Call(st, "onData", "stream", data)
               [] data.type = "complete"   ->
                      [Call(st, "onComplete", "stream", data) EXCEPT !.returned = TRUE]
               [] data.type = "error"      ->
                      [Call(st, "onError", "stream", Error(data.message)) EXCEPT !.returned = TRUE]
               [] OTHER                    -> st

\* mutant of DispatchLines: the for loop goes on after a terminal event
RECURSIVE DispatchLinesAll(_, _)
DispatchLinesAll(st, lines) ==
    IF lines = <<>> THEN st
    ELSE DispatchLinesAll(DispatchLine(st, Head(lines)), Tail(lines))

RECURSIVE DispatchLines(_, _)
DispatchLines(st, lines) ==
    IF lines = <<>> \/ st.returned THEN st
    ELSE DispatchLines(DispatchLine(st, Head(lines)), Tail(lines))

\* decode one chunk and dispatch its lines
ProcessChunk(c, log, heldBytes, value) ==
    LET d == decode(heldBytes, value)
        st == DispatchLines([chat |-> c, calls |-> log, returned |-> FALSE], split(d.text))
    IN  [chat |-> st.chat, calls |-> st.calls, returned |-> st.returned, held |-> d.held]

\* ------------------------------------------------- api.js: retry decisions
\* errors thrown in the connect phase
HttpError(status) == [name |-> "Error", code |-> Undefined, response |-> Undefined,
                      message |-> "HTTP error! status: " \o ToString(status)]
FetchTypeError == [name |-> "TypeError", code |-> Undefined, response |-> Undefined,
                   message |-> "Failed to fetch"]

shouldRetry(error) ==
    \/ error.response = Undefined
    \/ error.code = "ECONNABORTED"
    \/ (error.response # Undefined /\ error.response >= 500)

Min(a, b) == IF a < b THEN a ELSE b

\* mutant of retryDelay: no backoff
retryDelayFlat(n) == BaseDelay

\* mutant of retryDelay: linear backoff
retryDelayLinear(n) == Min(BaseDelay * (n + 1), MaxDelay)

retryDelay(n) == Min(BaseDelay * 2^n, MaxDelay)

\* Math.ceil(ms / 1000)
CeilSeconds(ms) == (ms + 999) \div 1000

\* mutant of RetryProgress: the message gives the delay in milliseconds
RetryProgressMillis(delay) ==
    [type |-> "progress",
     progress |-> 0,
     message |-> "Connection failed, retrying in " \o ToString(delay) \o "s...",
     session_id |-> Undefined]

RetryProgress(delay) ==
    [type |-> "progress",
     progress |-> 0,
     message |-> "Connection failed, retrying in " \o ToString(CeilSeconds(delay)) \o "s...",
     session_id |-> Undefined]

ExhaustedMessage ==
    "Connection failed after " \o ToString(maxRetries) \o " attempts. Please check your network connection."

errorMessage(n, error) == IF n >= maxRetries THEN ExhaustedMessage ELSE error.message

\* mutant of willRetry: one attempt too many
willRetryInclusive(n, error) == n <= maxRetries /\ shouldRetry(error)

willRetry(n, error) == n < maxRetries /\ shouldRetry(error)

\* --------------------------------------------------------------- Init
Init ==
    /\ chat = [isStreaming |-> FALSE, currentStream |-> Null, sessionId |-> Null,
               connectionStatus |-> "connected", messages |-> <<>>]
    /\ closureSessionId = Null
    /\ phase = "idle"
    /\ retryCount = 0
    /\ handle = "none"
    /\ stream = [cancelled |-> FALSE, readerCancelled |-> FALSE]
    /\ body = <<>>
    /\ pos = 0
    /\ held = <<>>
    /\ exit = "none"
    /\ outcomes = <<>>
    /\ timers = <<>>
    /\ calls = <<>>
    /\ fetches = 0
    /\ cancelledIn = Never
    /\ uiCancel = Never
    /\ cancelThrew = FALSE
    /\ intact = TRUE
    /\ requests = <<>>
    /\ sent = NoCall

\* ------------------------------------------------------------- actions
\* ChatBot.handleSendMessage -> chatAPI.streamMessage -> createStreamConnection(.., 0):
\* runs up to the first await (the fetch is in flight) and hands the promise back
handleSendMessage ==
    /\ ~chat.isStreaming
    /\ closureSessionId' = chat.sessionId
    /\ \E inputText \in InputTexts :
         LET messageText == trim(inputText)
         IN  /\ messageText # ""
             /\ chat' = [chat EXCEPT !.isStreaming = TRUE, !.connectionStatus = "connecting",
                                     !.currentStream = "promise",
                                     !.messages = <<[sender |-> "user", text |-> messageText,
                                                     isError |-> FALSE]>>]
             /\ requests' = <<[endpoint |-> Endpoint,
                               payload |-> StreamPayload(messageText, chat.sessionId),
                               callbacks |-> Callbacks, retryCount |-> 0]>>
    /\ sent' = sent
    /\ phase' = "connecting"
    /\ retryCount' = 0
    /\ fetches' = 1
    /\ handle' = "pending"
    /\ stream' = [cancelled |-> FALSE, readerCancelled |-> FALSE]
    /\ body' = <<>>
    /\ pos' = 0
    /\ held' = <<>>
    /\ exit' = "none"
    /\ outcomes' = <<>>
    /\ timers' = <<>>
    /\ calls' = <<>>
    /\ cancelledIn' = Never
    /\ uiCancel' = Never
    /\ cancelThrew' = FALSE
    /\ intact' = TRUE

\* the catch block of createStreamConnection
ConnectFailed(error, outcome) ==
    /\ outcomes' = Append(outcomes, outcome)
    /\ IF willRetry(retryCount, error)
       THEN LET st == Call([chat |-> chat, calls |-> calls], "onProgress", "retry",
                           RetryProgress(retryDelay(retryCount)))
            IN  /\ chat' = st.chat
                /\ calls' = st.calls
                /\ timers' = Append(timers, retryDelay(retryCount))
                /\ phase' = "waiting"
                /\ handle' = IF retryCount = 0 THEN "retry" ELSE handle
                /\ exit' = exit
       ELSE LET st == Call([chat |-> chat, calls |-> calls], "onError", "retry",
                           Error(errorMessage(retryCount, error)))
            IN  /\ chat' = st.chat
                /\ calls' = st.calls
                /\ timers' = timers
                /\ phase' = "done"
                /\ handle' = IF retryCount = 0 THEN "noop" ELSE handle
                /\ exit' = "connectError"
    /\ UNCHANGED <<closureSessionId, retryCount, stream, body, pos, held, fetches,
                   cancelledIn, uiCancel, cancelThrew, intact, requests, sent>>

\* fetch resolves with a response that is ok: reader and stream object are
\* created, processStream() runs up to its first reader.read()
FetchOk ==
    /\ phase = "connecting"
    /\ body' \in Bodies(ReplyKinds, MaxReplyLines)
    /\ outcomes' = Append(outcomes, 200)
    /\ stream' = [cancelled |-> FALSE, readerCancelled |-> FALSE]
    /\ pos' = 0
    /\ held' = <<>>
    /\ phase' = "streaming"
    /\ handle' = IF retryCount = 0 THEN "stream" ELSE handle
    /\ UNCHANGED <<chat, closureSessionId, retryCount, exit, timers, calls, fetches,
                   cancelledIn, uiCancel, cancelThrew, intact, requests, sent>>

\* mutant of FetchHttpError: response.ok is not tested and the body of the
\* error response is read as a stream
FetchHttpErrorRead ==
    /\ phase = "connecting"
    /\ \E status \in {404, 500} : outcomes' = Append(outcomes, status)
    /\ body' \in Bodies(ReplyKinds, MaxReplyLines)
    /\ stream' = [cancelled |-> FALSE, readerCancelled |-> FALSE]
    /\ pos' = 0
    /\ held' = <<>>
    /\ phase' = "streaming"
    /\ handle' = IF retryCount = 0 THEN "stream" ELSE handle
    /\ UNCHANGED <<chat, closureSessionId, retryCount, exit, timers, calls, fetches,
                   cancelledIn, uiCancel, cancelThrew, intact, requests, sent>>

\* fetch resolves with a response that is not ok
FetchHttpError ==
    /\ phase = "connecting"
    /\ \E status \in {404, 500} : ConnectFailed(HttpError(status), status)

\* fetch rejects (no response)
FetchRejects ==
    /\ phase = "connecting"
    /\ ConnectFailed(FetchTypeError, 0)

\* mutant of RetryTimerFires: the timer callback does nothing
RetryTimerFiresLost ==
    /\ phase = "waiting"
    /\ UNCHANGED vars

\* mutant of RetryTimerFires: the retry posts the message without the session id
RetryTimerFiresBare ==
    /\ phase = "waiting"
    /\ retryCount' = retryCount + 1
    /\ fetches' = fetches + 1
    /\ requests' = Append(requests,
                          [requests[Len(requests)] EXCEPT
                              !.retryCount = retryCount + 1,
                              !.payload = [message |-> @.message]])
    /\ phase' = "connecting"
    /\ UNCHANGED <<chat, closureSessionId, handle, stream, body, pos, held, exit,
                   outcomes, timers, calls, cancelledIn, uiCancel, cancelThrew, intact, sent>>

\* the setTimeout callback of the retry branch
RetryTimerFires ==
    /\ phase = "waiting"
    /\ retryCount' = retryCount + 1
    /\ fetches' = fetches + 1
    /\ requests' = Append(requests, [requests[Len(requests)] EXCEPT !.retryCount = retryCount + 1])
    /\ phase' = "connecting"
    /\ UNCHANGED <<chat, closureSessionId, handle, stream, body, pos, held, exit,
                   outcomes, timers, calls, cancelledIn, uiCancel, cancelThrew, intact, sent>>

\* mutant of ReadChunk: a terminal event leaves the for loop only and the
\* while loop reads on
ReadChunkReadsOn ==
    /\ phase = "streaming"
    /\ ~stream.readerCancelled
    /\ pos < Len(body)
    /\ \E n \in 1..(Len(body) - pos) :
         LET r == ProcessChunk(chat, calls, held, SubSeq(body, pos + 1, pos + n))
             end == pos + n
         IN  /\ pos' = end
             /\ chat' = r.chat
             /\ calls' = r.calls
             /\ held' = r.held
             /\ phase' = "streaming"
             /\ exit' = IF r.returned THEN "event" ELSE exit
             /\ intact' = (intact /\ (body[end] = NL \/ (end < Len(body) /\ body[end + 1] = NL)))
    /\ UNCHANGED <<closureSessionId, retryCount, handle, stream, body, outcomes,
                   timers, fetches, cancelledIn, uiCancel, cancelThrew, requests, sent>>

\* reader.read() resolves with a chunk of n bytes
ReadChunk ==
    /\ phase = "streaming"
    /\ ~stream.readerCancelled
    /\ pos < Len(body)
    /\ \E n \in 1..(Len(body) - pos) :
         LET r == ProcessChunk(chat, calls, held, SubSeq(body, pos + 1, pos + n))
             end == pos + n
         IN  /\ pos' = end
             /\ chat' = r.chat
             /\ calls' = r.calls
             /\ held' = r.held
             /\ phase' = IF r.returned THEN "done" ELSE "streaming"
             /\ exit' = IF r.returned THEN "event" ELSE exit
             /\ intact' = (intact /\ (body[end] = NL \/ (end < Len(body) /\ body[end + 1] = NL)))
    /\ UNCHANGED <<closureSessionId, retryCount, handle, stream, body, outcomes,
                   timers, fetches, cancelledIn, uiCancel, cancelThrew, requests, sent>>

\* mutant of ReadDone: end-of-data is treated as a lost connection and the
\* request connects again
ReadDoneReconnects ==
    /\ phase = "streaming"
    /\ pos = Len(body) \/ stream.readerCancelled
    /\ retryCount < maxRetries
    /\ retryCount' = retryCount + 1
    /\ fetches' = fetches + 1
    /\ requests' = Append(requests, [requests[Len(requests)] EXCEPT !.retryCount = retryCount + 1])
    /\ phase' = "connecting"
    /\ exit' = "eof"
    /\ UNCHANGED <<chat, closureSessionId, handle, stream, body, pos, held, outcomes,
                   timers, calls, cancelledIn, uiCancel, cancelThrew, intact, sent>>

\* reader.read() resolves with done: at the end of the body, or because
\* reader.cancel() closed the stream
ReadDone ==
    /\ phase = "streaming"
    /\ pos = Len(body) \/ stream.readerCancelled
    /\ LET st == Call([chat |-> chat, calls |-> calls], "onComplete", "stream", NoEvent)
       IN  chat' = st.chat /\ calls' = st.calls
    /\ phase' = "done"
    /\ exit' = "eof"
    /\ UNCHANGED <<closureSessionId, retryCount, handle, stream, body, pos, held,
                   outcomes, timers, fetches, cancelledIn, uiCancel, cancelThrew, intact,
                   requests, sent>>

\* reader.read() rejects: the catch block of processStream
ReadErrors == {[name |-> "AbortError", code |-> Undefined, message |-> "The operation was aborted"],
               [name |-> "Error", code |-> "ECONNRESET", message |-> "socket hang up"],
               [name |-> "TypeError", code |-> Undefined, message |-> "network error"]}

\* mutant of ReadRejects: the failure is handled like a failed connection
\* attempt and a retry is scheduled
ReadRejectsRetried ==
    /\ phase = "streaming"
    /\ LET st == Call([chat |-> chat, calls |-> calls], "onProgress", "retry",
                      RetryProgress(retryDelay(retryCount)))
       IN  chat' = st.chat /\ calls' = st.calls
    /\ timers' = Append(timers, retryDelay(retryCount))
    /\ phase' = "waiting"
    /\ exit' = "readError"
    /\ UNCHANGED <<closureSessionId, retryCount, handle, stream, body, pos, held,
                   outcomes, fetches, cancelledIn, uiCancel, cancelThrew, intact, requests, sent>>

ReadRejects ==
    /\ phase = "streaming"
    /\ \E error \in ReadErrors :
         LET e == IF error.name = "AbortError" \/ error.code = "ECONNRESET"
                  THEN Error("Connection interrupted. Please try again.")
                  ELSE Error(error.message)
             st == IF ~stream.cancelled
                   THEN Call([chat |-> chat, calls |-> calls], "onError", "stream", e)
                   ELSE [chat |-> chat, calls |-> calls]
         IN  chat' = st.chat /\ calls' = st.calls
    /\ phase' = "done"
    /\ exit' = "readError"
    /\ UNCHANGED <<closureSessionId, retryCount, handle, stream, body, pos, held,
                   outcomes, timers, fetches, cancelledIn, uiCancel, cancelThrew, intact,
                   requests, sent>>

\* cancel() of the object the promise returned by streamMessage resolved to:
\* the stream object, the handle of the retry branch or the handle of the
\* failure branch
cancel ==
    /\ handle \in {"stream", "retry", "noop"}
    /\ stream' = IF handle = "stream"
                 THEN [cancelled |-> TRUE, readerCancelled |-> TRUE]
                 ELSE stream
    /\ cancelledIn' = IF cancelledIn = Never THEN phase ELSE cancelledIn
    /\ UNCHANGED <<chat, closureSessionId, phase, retryCount, handle, body, pos, held,
                   exit, outcomes, timers, calls, fetches, uiCancel, cancelThrew, intact,
                   requests, sent>>

\* ChatBot.cancelStream (the button is rendered while isStreaming).
\* currentStream holds the promise streamMessage returned; a promise has no
\* cancel method, the call throws a TypeError and the setters after it do not run
\* mutant of HasCancel: whatever currentStream holds can be cancelled
HasCancelAlways(v) == TRUE

HasCancel(v) == v \in {"stream", "retry", "noop"}

cancelStream ==
    /\ chat.isStreaming
    /\ chat.currentStream # Null
    /\ uiCancel' = IF uiCancel # Never THEN uiCancel
                   ELSE IF handle = "pending" THEN "early" ELSE "late"
    /\ IF HasCancel(chat.currentStream)
       THEN /\ chat' = [chat EXCEPT !.currentStream = Null, !.isStreaming = FALSE]
            /\ cancelThrew' = cancelThrew
       ELSE /\ chat' = chat
            /\ cancelThrew' = TRUE
    /\ UNCHANGED <<closureSessionId, phase, retryCount, handle, stream, body, pos,
                   held, exit, outcomes, timers, calls, fetches, cancelledIn, intact,
                   requests, sent>>

Next ==
    \/ handleSendMessage
    \/ FetchOk
    \/ FetchHttpError
    \/ FetchRejects
    \/ RetryTimerFires
    \/ ReadChunk
    \/ ReadDone
    \/ ReadRejects
    \/ cancelStream

\* ---------------------------------------------------- api.js: sendMessage
SessionIds == {Null, "abc", "xyz"}

\* what apiClient.post('/chat', payload) settles with: a response, or an axios
\* error that carries a response (status, body), only a request, or neither
PostOk == [ok |-> TRUE, response |-> TRUE, status |-> 200, hasData |-> TRUE,
           detail |-> Undefined, request |-> TRUE]

PostErrors ==
    {[ok |-> FALSE, response |-> TRUE, status |-> st, hasData |-> d[1], detail |-> d[2],
      request |-> TRUE] :
         st \in {400, 500},
         d \in {<<FALSE, Undefined>>, <<TRUE, Undefined>>, <<TRUE, "Not found">>}}
    \cup {[ok |-> FALSE, response |-> FALSE, status |-> 0, hasData |-> FALSE,
            detail |-> Undefined, request |-> rq] : rq \in BOOLEAN}

ServerErrorText == "Server error occurred"
UnableToConnectText == "Unable to connect to AI agent. Please check your connection."
UnexpectedErrorText == "An unexpected error occurred"

\* mutant of sendErrorText: error.request is tested before error.response
sendErrorTextRequestFirst(error) ==
    IF error.request THEN UnableToConnectText
    ELSE IF error.response
         THEN IF error.hasData /\ Truthy(error.detail) THEN error.detail ELSE ServerErrorText
         ELSE UnexpectedErrorText

\* the catch block of sendMessage: the message of the error thrown
sendErrorText(error) ==
    IF error.response
    THEN IF error.hasData /\ Truthy(error.detail) THEN error.detail ELSE ServerErrorText
    ELSE IF error.request THEN UnableToConnectText
    ELSE UnexpectedErrorText

\* chatAPI.sendMessage(message, sessionId) from the call to its return or throw
sendMessage ==
    /\ \E message \in Texts(MaxText), sessionId \in SessionIds,
          outcome \in {PostOk} \cup PostErrors :
         sent' = [message |-> message, sessionId |-> sessionId,
                  posts |-> <<SendPayload(message, sessionId)>>,
                  outcome |-> outcome,
                  returned |-> IF outcome.ok THEN "response.data" ELSE Undefined,
                  thrown |-> IF outcome.ok THEN Undefined ELSE sendErrorText(outcome)]
    /\ UNCHANGED <<chat, closureSessionId, phase, retryCount, handle, stream, body, pos,
                   held, exit, outcomes, timers, calls, fetches, cancelledIn, uiCancel,
                   cancelThrew, intact, requests>>

\* The non-streaming call alone
SpecSend == Init /\ [][sendMessage]_vars

\* The application: ChatBot drives chatAPI
Spec == Init /\ [][Next]_vars

\* Requests that are never cancelled, where every fetch settles, every retry
\* timer fires and every pending read settles
NextRun ==
    \/ handleSendMessage
    \/ FetchOk
    \/ FetchHttpError
    \/ FetchRejects
    \/ RetryTimerFires
    \/ ReadChunk
    \/ ReadDone
    \/ ReadRejects

SpecRun ==
    /\ Init
    /\ [][NextRun]_vars
    /\ WF_vars(FetchOk \/ FetchHttpError \/ FetchRejects)
    /\ WF_vars(RetryTimerFires)
    /\ WF_vars(ReadChunk \/ ReadDone \/ ReadRejects)

\* A caller that awaits the promise streamMessage returns and calls cancel()
\* on the handle it resolves to
NextApi ==
    \/ handleSendMessage
    \/ FetchOk
    \/ FetchHttpError
    \/ FetchRejects
    \/ RetryTimerFires
    \/ ReadChunk
    \/ ReadDone
    \/ ReadRejects
    \/ cancel

SpecApi == Init /\ [][NextApi]_vars

\* The read loop alone: the first connection of a request has just succeeded
\* (handleSendMessage, then FetchOk) with an arbitrary body of up to MaxLines lines
StreamOpened(bodies) ==
    /\ chat = [isStreaming |-> TRUE, currentStream |-> "promise", sessionId |-> Null,
               connectionStatus |-> "connecting",
               messages |-> <<[sender |-> "user", text |-> "h", isError |-> FALSE]>>]
    /\ closureSessionId = Null
    /\ phase = "streaming"
    /\ retryCount = 0
    /\ handle = "stream"
    /\ stream = [cancelled |-> FALSE, readerCancelled |-> FALSE]
    /\ body \in bodies
    /\ pos = 0
    /\ held = <<>>
    /\ exit = "none"
    /\ outcomes = <<200>>
    /\ timers = <<>>
    /\ calls = <<>>
    /\ fetches = 1
    /\ cancelledIn = Never
    /\ uiCancel = Never
    /\ cancelThrew = FALSE
    /\ intact = TRUE
    /\ requests = <<[endpoint |-> Endpoint, payload |-> StreamPayload("h", Null),
                     callbacks |-> Callbacks, retryCount |-> 0]>>
    /\ sent = NoCall

InitStream == StreamOpened(Bodies(LineKinds, MaxLines))

NextStream ==
    \/ ReadChunk
    \/ ReadDone
    \/ ReadRejects
    \/ cancel

SpecStream == InitStream /\ [][NextStream]_vars

\* One request of a direct caller, started either from scratch (connect
\* failures, retries, short bodies) or with its first connection just
\* established on an arbitrary body of up to MaxLines lines
InitRequest == Init \/ InitStream

SpecRequest == InitRequest /\ [][NextApi]_vars

\* The read loop on a body made of an event that does not end the stream, one
\* to MaxSkipped lines `data: {!` and one more event
SkipKinds ==
    {<<a>> \o [i \in 1..k |-> "malformed"] \o <<b>> :
        a \in {"progress", "data", "dataUtf8"},
        k \in 1..MaxSkipped,
        b \in {"progress", "data", "dataUtf8", "complete", "error"}}

InitSkip == StreamOpened({BodyBytes(ks) : ks \in SkipKinds})

SpecSkip == InitSkip /\ [][NextStream]_vars

\* ================================================================ claims
CallsOf(from) == SelectSeq(calls, LAMBDA c : c.from = from)
CallsTo(cb) == SelectSeq(calls, LAMBDA c : c.cb = cb)
IsTerminal(c) == c.cb \in {"onComplete", "onError"}

\* the callbacks processStream makes when a whole body arrives as one chunk and
\* the next read reports end-of-data
UnsplitCalls(b) ==
    LET r == ProcessChunk(chat, <<>>, <<>>, b)
    IN  IF r.returned THEN r.calls
        ELSE Append(r.calls, [cb |-> "onComplete", from |-> "stream", arg |-> NoEvent])

\* C1 (as claimed): when the read loop has ended on a terminal event or on
\* end-of-data, without cancellation, the callbacks it dispatched are those
\* it dispatches for the same body delivered as a single chunk, however the
\* body was split into chunks.
C1_SplitInvariant ==
    (exit \in {"eof", "event"} /\ ~stream.cancelled)
        => CallsOf("stream") = UnsplitCalls(body)

\* C2 (as claimed): once cancel() has been invoked on the stream object while
\* it was streaming, no callback is invoked any more.
C2_SilentAfterCancel ==
    [][(cancelledIn = "streaming" /\ stream.cancelled) => calls' = calls]_vars

\* C3 (as claimed): after cancel() was invoked while a retry timer was
\* pending, no connection is opened and no callback fires.
C3_CancelStopsRetry ==
    [][cancelledIn = "waiting" => (fetches' = fetches /\ calls' = calls)]_vars

\* C4 (as claimed): cancel() called on the caller's handle while the request
\* is streaming sets the cancelled flag of the live stream and asks its
\* reader to stop.
C4_CancelReachesStream ==
    cancelledIn = "streaming" => (stream.cancelled /\ stream.readerCancelled)

\* C5 (as claimed): a request cancelled through the value handleSendMessage
\* keeps, before its first connection attempt has answered, never invokes a
\* callback.
C5_EarlyCancelSilences ==
    uiCancel = "early" => calls = <<>>

\* C6 (as claimed): cancel() on the value ChatBot holds as its current stream
\* never raises an exception, whenever and however often it is called.
C6_CancelNeverThrows ==
    ~cancelThrew

RetryProgressCalls == SelectSeq(calls, LAMBDA c : c.cb = "onProgress" /\ c.from = "retry")
Is4xx(o) == o >= 400 /\ o < 500
Is5xx(o) == o >= 500 /\ o < 600

\* C7 (as claimed): a 4xx response ends the request at once: it is the last
\* connection attempt, no retry progress event and no timer follow it, and
\* onError has fired exactly once, as the last callback.
C7_ClientErrorIsFinal ==
    \A i \in DOMAIN outcomes :
        Is4xx(outcomes[i]) =>
            /\ i = Len(outcomes)
            /\ phase = "done"
            /\ fetches = i
            /\ Len(timers) = i - 1
            /\ Len(RetryProgressCalls) = i - 1
            /\ Len(CallsTo("onError")) = 1
            /\ calls[Len(calls)].cb = "onError"

\* C8: after the connect outcomes 5xx, 5xx, success the timers were scheduled
\* with 1000 ms then 2000 ms, three connections were made, the request is
\* streaming (or has streamed), and the callbacks so far are exactly two retry
\* progress events followed only by callbacks of the read loop.
C8_TwoRetriesThenStream ==
    (Len(outcomes) = 3 /\ Is5xx(outcomes[1]) /\ Is5xx(outcomes[2]) /\ outcomes[3] = 200)
        => /\ timers = <<1000, 2000>>
           /\ fetches = 3
           /\ retryCount = 2
           /\ phase \in {"streaming", "done"}
           /\ Len(calls) >= 2
           /\ \A i \in DOMAIN calls :
                IF i <= 2
                THEN calls[i].cb = "onProgress" /\ calls[i].from = "retry"
                ELSE calls[i].from = "stream"

C8_Witness ==
    /\ Len(outcomes) = 3 /\ Is5xx(outcomes[1]) /\ Is5xx(outcomes[2]) /\ outcomes[3] = 200
    /\ phase = "streaming"
    /\ Len(calls) = 3
    /\ calls[3].cb = "onData"

All5xx == \A i \in DOMAIN outcomes : Is5xx(outcomes[i])

\* C9: while the connect outcomes are 5xx only, no onError fires before the
\* fourth failure; after the fourth the request is over with exactly one
\* onError, the last callback, carrying the attempts-exhausted message, four
\* connections were made and no timer is pending.
C9_ExhaustedAfterFour ==
    All5xx =>
        /\ Len(outcomes) <= 4
        /\ Len(outcomes) < 4 => CallsTo("onError") = <<>>
        /\ Len(outcomes) = 4 =>
              /\ phase = "done"
              /\ exit = "connectError"
              /\ fetches = 4
              /\ Len(timers) = 3
              /\ Len(CallsTo("onError")) = 1
              /\ calls[Len(calls)] = [cb |-> "onError", from |-> "retry",
                                      arg |-> Error(ExhaustedMessage)]

C9_Witness ==
    /\ All5xx
    /\ Len(outcomes) = 4
    /\ Len(calls) = 4

\* ---- C10
EventKinds == {"progress", "data", "dataUtf8", "complete"}

ExpectedCall(k) ==
    CASE k = "progress" ->
             [cb |-> "onProgress", from |-> "stream",
              arg |-> [type |-> "progress", message |-> Undefined, session_id |-> "abc"]]
      [] k = "data" ->
             [cb |-> "onData", from |-> "stream",
              arg |-> [type |-> "data", message |-> "hi", session_id |-> "abc"]]
      [] k = "dataUtf8" ->
             [cb |-> "onData", from |-> "stream",
              arg |-> [type |-> "data", message |-> "e'", session_id |-> "xyz"]]
      [] OTHER ->
             [cb |-> "onComplete", from |-> "stream",
              arg |-> [type |-> "complete", message |-> Undefined, session_id |-> Undefined]]

\* lines of ks whose text lies wholly within the first p bytes of the body
LinesWithin(ks, p) ==
    Cardinality({i \in DOMAIN ks : Len(BodyBytes(SubSeq(ks, 1, i))) - 1 <= p})

FirstComplete(ks) ==
    IF \E i \in DOMAIN ks : ks[i] = "complete"
    THEN CHOOSE i \in DOMAIN ks : ks[i] = "complete" /\ \A j \in 1..(i - 1) : ks[j] # "complete"
    ELSE Len(ks) + 1

ExpectedCalls(ks, p) ==
    [i \in 1..Min(LinesWithin(ks, p), FirstComplete(ks)) |-> ExpectedCall(ks[i])]

EventBodies == {[kinds |-> ks, bytes |-> BodyBytes(ks)] : ks \in KindSeqs(EventKinds, MaxLines)}

C11_TerminalIsLast ==
    \A i \in DOMAIN calls : IsTerminal(calls[i]) => i = Len(calls)

\* an error event followed by a data event, both delivered in the last chunk
C11_Witness ==
    /\ body = BodyBytes(<<"error", "data">>)
    /\ pos = Len(body)
    /\ exit = "event"
    /\ Len(calls) = 1
    /\ calls[1].cb = "onError"

\* ---- C12
SkipExpected(k) ==
    IF k = "error"
    THEN [cb |-> "onError", from |-> "stream", arg |-> Error("hi")]
    ELSE ExpectedCall(k)

C14_EndOfData ==
    /\ (exit = "eof" /\ ~stream.cancelled) =>
           /\ calls[Len(calls)] = [cb |-> "onComplete", from |-> "stream", arg |-> NoEvent]
           /\ Len(CallsTo("onComplete")) = 1
           /\ CallsTo("onError") = <<>>
    /\ exit = "event" =>
           /\ phase = "done"
           /\ IsTerminal(calls[Len(calls)])
           /\ \A i \in DOMAIN calls : calls[i].arg # NoEvent

C14_Witness ==
    /\ body = BodyBytes(<<"progress", "data">>)
    /\ intact
    /\ ~stream.cancelled
    /\ exit = "eof"
    /\ Len(calls) = 3

\* ---- C15
\* bodies of events with an error event that no terminal event precedes
ErrorCases ==
    {[kinds |-> ks, at |-> i] :
        ks \in KindSeqs(EventKinds \cup {"error"}, MaxLines), i \in 1..MaxLines}

C16_OneLiveReader ==
    /\ \A i \in DOMAIN outcomes : outcomes[i] = 200 => i = Len(outcomes)
    /\ (\E i \in DOMAIN outcomes : outcomes[i] = 200) =>
           /\ fetches = Len(outcomes)
           /\ phase \in {"streaming", "done"}
    /\ fetches - Len(outcomes) \in {0, 1}
    /\ phase = "streaming" => (outcomes # <<>> /\ outcomes[Len(outcomes)] = 200)
    /\ \A i, j \in DOMAIN calls :
           (i < j /\ calls[i].from = "stream") => calls[j].from = "stream"

\* the fourth connection of a request answers with a stream that is read to its end
C16_Witness ==
    /\ Len(outcomes) = 4
    /\ outcomes[4] = 200
    /\ fetches = 4
    /\ exit = "eof"
    /\ Len(CallsOf("stream")) = 2

\* C17: the timers of a request are scheduled with 1000, 2000 and 4000 ms, in
\* this order and never more than three; and for every attempt number n the
\* delay computed is 1000 * 2^n ms up to n = 3 and 10000 ms beyond, hence
\* never above 10000 ms and never smaller than the delay of attempt n - 1.
C17_BackoffSchedule ==
    /\ Len(timers) <= 3
    /\ \A i \in DOMAIN timers : timers[i] = <<1000, 2000, 4000>>[i]
    /\ \A n \in 0..MaxAttempt :
           /\ retryDelay(n) = IF n <= 3 THEN 1000 * 2^n ELSE 10000
           /\ retryDelay(n) <= 10000
           /\ retryDelay(n) <= retryDelay(n + 1)

C17_Witness ==
    /\ timers = <<1000, 2000, 4000>>
    /\ phase = "waiting"
    /\ retryCount = 2

\* ---- C18
RetryEvent(seconds) ==
    [cb |-> "onProgress", from |-> "retry",
     arg |-> [type |-> "progress", progress |-> 0,
              message |-> "Connection failed, retrying in " \o ToString(seconds) \o "s...",
              session_id |-> Undefined]]

\* C18: a request has made as many retry progress events as it has scheduled
\* retries; the event of the i-th retry has type progress, progress 0 and a
\* message giving the wait as the smallest whole number of seconds that is
\* not below the i-th delay; and while a timer is pending the event of its
\* retry is the last callback made, so the event precedes the retry.
C18_RetryProgress ==
    /\ Len(RetryProgressCalls) = Len(timers)
    /\ \A i \in DOMAIN timers :
           \E seconds \in 1..10 :
               /\ (seconds - 1) * 1000 < timers[i]
               /\ timers[i] <= seconds * 1000
               /\ RetryProgressCalls[i] = RetryEvent(seconds)
    /\ phase = "waiting" =>
           (timers # <<>> /\ calls[Len(calls)] = RetryProgressCalls[Len(timers)])

C18_Witness ==
    /\ phase = "waiting"
    /\ timers = <<1000, 2000>>
    /\ calls = <<RetryEvent(1), RetryEvent(2)>>

\* C19 (as claimed): once the chat holds a session id, no callback replaces
\* it by another one.
C19_SessionIdKept ==
    [][chat.sessionId # Null => chat'.sessionId = chat.sessionId]_vars

\* C20: every step in which handleSendMessage starts a stream is taken when
\* the panel has no request or its request is over: no connection attempt in
\* flight, no retry timer pending, no read loop running.
C20_OneStreamPerPanel ==
    [][handleSendMessage => phase \in {"idle", "done"}]_vars

\* cancel was pressed while a retry timer is pending and the panel still
\* refuses a new message
C20_Witness ==
    /\ phase = "waiting"
    /\ uiCancel = "late"
    /\ chat.isStreaming
    /\ ~ENABLED handleSendMessage

\* ---- C21
\* t is s without its leading and trailing blanks
IsTrimOf(t, s) ==
    /\ Len(t) > 0 => (SubSeq(t, 1, 1) # " " /\ SubSeq(t, Len(t), Len(t)) # " ")
    /\ \E i \in 0..Len(s) :
           /\ SubSeq(s, i + 1, i + Len(t)) = t
           /\ i + Len(t) <= Len(s)
           /\ \A j \in (1..i) \cup ((i + Len(t) + 1)..Len(s)) : SubSeq(s, j, j) = " "

PayloadAsClaimed(p, message, sessionId) ==
    /\ IsTrimOf(p.message, message)
    /\ ("session_id" \in DOMAIN p) <=> (sessionId # Null)
    /\ sessionId # Null => p.session_id = sessionId

\* C21: the payload sendMessage posts, and the payload streamMessage builds
\* from the same arguments, hold the message without its leading and
\* trailing blanks and hold a session_id field exactly when the session id
\* is not null, equal to it.
C21_Payload ==
    sent # NoCall =>
        /\ Len(sent.posts) = 1
        /\ PayloadAsClaimed(sent.posts[1], sent.message, sent.sessionId)
        /\ PayloadAsClaimed(StreamPayload(sent.message, sent.sessionId),
                            sent.message, sent.sessionId)

C21_Witness ==
    /\ sent # NoCall
    /\ sent.message = " h "
    /\ sent.sessionId = "abc"
    /\ sent.posts = <<[message |-> "h", session_id |-> "abc"]>>

\* C22 (as claimed): when the request has ended with the attempts-exhausted
\* error, the error message shown in the conversation is that explanatory
\* text, not the text shown for a generic network failure.
C22_ExhaustedTextShown ==
    (calls # <<>> /\ calls[Len(calls)].arg = Error(ExhaustedMessage)) =>
        LET shown == chat.messages[Len(chat.messages)]
        IN  /\ shown.isError
            /\ shown.text = ExhaustedMessage
            /\ shown.text # NetworkErrorText

\* ---- C23
IsErrorStatus(o) == o >= 400 /\ o < 600
FailedAttempts == SelectSeq(outcomes, LAMBDA o : o # 200)

\* C23: while the last answer of a request is a response with an error
\* status, the request is not streaming: it waits for a retry, connects
\* again or has ended with the connect error; as long as no attempt has
\* succeeded no body was obtained, nothing was read or decoded and no
\* onData, onComplete or read-loop callback was made; and every failed
\* attempt went through the retry logic, which scheduled a timer for it or
\* gave the final error.
C23_ErrorResponseNotRead ==
    /\ (outcomes # <<>> /\ IsErrorStatus(outcomes[Len(outcomes)])) =>
           /\ phase \in {"waiting", "connecting", "done"}
           /\ phase = "done" => exit = "connectError"
    /\ (\A i \in DOMAIN outcomes : outcomes[i] # 200) =>
           /\ body = <<>> /\ pos = 0 /\ held = <<>>
           /\ CallsOf("stream") = <<>>
           /\ CallsTo("onData") = <<>> /\ CallsTo("onComplete") = <<>>
    /\ Len(FailedAttempts) = Len(timers) + (IF exit = "connectError" THEN 1 ELSE 0)

\* a 500 response, then a 404 response, and the second retry is pending
C23_Witness ==
    /\ outcomes = <<500, 404>>
    /\ phase = "waiting"
    /\ Len(timers) = 2
    /\ body = <<>>

\* ---- C24
Known(ks) == SelectSeq(ks, LAMBDA k : k # "unknown")

\* the callbacks expected once the first n lines of ks have been dispatched
\* if events of unknown type count for nothing
ExpectedWithout(ks, n) ==
    LET seen == Known(SubSeq(ks, 1, n))
    IN  [i \in 1..Min(Len(seen), FirstComplete(seen)) |-> ExpectedCall(seen[i])]

C25_SameRequestEveryAttempt ==
    /\ Len(requests) = fetches
    /\ \A i \in DOMAIN requests :
           requests[i] = [endpoint |-> "/chat/stream",
                          payload |-> requests[1].payload,
                          callbacks |-> {"onProgress", "onData", "onComplete", "onError"},
                          retryCount |-> i - 1]
    /\ requests # <<>> =>
           /\ requests[1].payload.message = chat.messages[1].text
           /\ requests[1].payload =
                  IF closureSessionId = Null THEN [message |-> "h"]
                  ELSE [message |-> "h", session_id |-> closureSessionId]
    /\ requests # <<>> => retryCount = Len(requests) - 1

C25_Witness ==
    /\ Len(requests) = 4
    /\ phase = "connecting"
    /\ requests[4] = [endpoint |-> "/chat/stream",
                      payload |-> [message |-> "h", session_id |-> "abc"],
                      callbacks |-> {"onProgress", "onData", "onComplete", "onError"},
                      retryCount |-> 3]

\* C26: a sendMessage call posts once, whatever the outcome; when the post
\* fails it returns nothing and throws one error whose message is the
\* detail of the error response, or 'Server error occurred' when the
\* response carries none, the unable-to-connect text when a request was made
\* and no response received, and the unexpected-error text otherwise; when
\* the post succeeds it returns the response data and throws nothing.
C26_SendErrorMapping ==
    sent # NoCall =>
        LET o == sent.outcome
        IN  /\ Len(sent.posts) = 1
            /\ o.ok => (sent.returned # Undefined /\ sent.thrown = Undefined)
            /\ ~o.ok =>
                   /\ sent.returned = Undefined
                   /\ o.response =>
                          sent.thrown = IF o.hasData /\ o.detail # Undefined
                                        THEN o.detail ELSE "Server error occurred"
                   /\ (~o.response /\ o.request) =>
                          sent.thrown =
                              "Unable to connect to AI agent. Please check your connection."
                   /\ (~o.response /\ ~o.request) =>
                          sent.thrown = "An unexpected error occurred"

C26_Witness ==
    /\ sent # NoCall
    /\ sent.outcome.status = 400
    /\ sent.outcome.detail = "Not found"
    /\ sent.thrown = "Not found"
    /\ sent.returned = Undefined

\* ---- C27
TerminalCalls == SelectSeq(calls, IsTerminal)

\* C27: a request that is never cancelled never makes more than four
\* connection attempts, has fired no terminal callback while it is running
\* and exactly one when it is over, and, its fetches, timers and reads
\* settling, is eventually over.
C27_EndsWithOneTerminal ==
    /\ [](fetches <= 4)
    /\ [](phase \in {"connecting", "waiting", "streaming"} => TerminalCalls = <<>>)
    /\ [](phase = "done" => Len(TerminalCalls) = 1)
    /\ (phase \in {"connecting", "waiting", "streaming"}) ~> (phase = "done")

\* the fourth attempt opened a stream that ended on an error event
C27_Witness ==
    /\ fetches = 4
    /\ phase = "done"
    /\ exit = "event"
    /\ calls[Len(calls)].cb = "onError"
    /\ Len(TerminalCalls) = 1

\* ---- C28
ErrorMessages == SelectSeq(chat.messages, LAMBDA m : m.isError)

\* C28: when the last callback of a request is onComplete or onError, the
\* chat is not streaming, holds no current stream and accepts a new message;
\* after onError the conversation ends with a bot message marked as error,
\* the only such message of the request; after onComplete the request has
\* added no error message, only the user message and one bot message per
\* onData.
C28_TerminalResetsChat ==
    (calls # <<>> /\ IsTerminal(calls[Len(calls)])) =>
        /\ ~chat.isStreaming
        /\ chat.currentStream = Null
        /\ ENABLED handleSendMessage
        /\ calls[Len(calls)].cb = "onError" =>
               /\ Len(ErrorMessages) = 1
               /\ chat.messages[Len(chat.messages)].isError
               /\ chat.messages[Len(chat.messages)].sender = "bot"
               /\ Len(chat.messages) = 2 + Len(CallsTo("onData"))
        /\ calls[Len(calls)].cb = "onComplete" =>
               /\ ErrorMessages = <<>>
               /\ Len(chat.messages) = 1 + Len(CallsTo("onData"))

\* a read failure after a data event
C28_Witness ==
    /\ exit = "readError"
    /\ Len(calls) = 2
    /\ calls[1].cb = "onData"
    /\ calls[2].cb = "onError"
    /\ Len(chat.messages) = 3
    /\ chat.messages[3].text = NetworkErrorText
    /\ ~chat.isStreaming

\* C29 (as claimed): during a request connectionStatus is 'connected' only
\* once the read loop of a successful connection has delivered an event: it
\* is not 'connected' while a retry is pending, and it is not 'connecting'
\* any more once the stream has ended with onComplete.
C29_StatusFollowsServer ==
    /\ phase = "waiting" => chat.connectionStatus # "connected"
    /\ (phase \in {"connecting", "waiting", "streaming"}
           /\ chat.connectionStatus = "connected") =>
           \E i \in DOMAIN calls :
               calls[i].from = "stream" /\ calls[i].cb \in {"onProgress", "onData"}
    /\ (calls # <<>> /\ calls[Len(calls)].cb = "onComplete") =>
           chat.connectionStatus # "connecting"

====
